---------------------------- MODULE Spec2Model ----------------------------
(***************************************************************************)
(* Model of the session state machine of clickhouse/client.cpp             *)
(* (Client::Impl): handshake, ExecuteQuery, Insert, Ping, packet           *)
(* reception and the bytes written to / read from the socket.              *)
(*                                                                         *)
(* Both directions of the socket are byte sequences (elements 0..255).     *)
(* Strings are sequences of character codes.                               *)
(***************************************************************************)
EXTENDS Integers, Sequences, FiniteSets

(***************************************************************************)
(* Bounds of the model.                                                    *)
(***************************************************************************)
\* number of packets (or packet prefixes) the server writes per connection
MaxPackets == 3
\* number of ExecuteQuery / Insert / Ping calls over the whole run
MaxCalls == 2
\* number of Client objects constructed over the whole run
MaxSessions == 1
\* the server writes a packet only while at most this many bytes are unread
MaxUnread == 1

(***************************************************************************)
(* Program constants (client.cpp:14-24).                                   *)
(***************************************************************************)
DBMS_VERSION_MAJOR == 1
DBMS_VERSION_MINOR == 1
REVISION == 54126
DBMS_MIN_REVISION_WITH_TEMPORARY_TABLES == 50264
DBMS_MIN_REVISION_WITH_TOTAL_ROWS_IN_PROGRESS == 51554
DBMS_MIN_REVISION_WITH_BLOCK_INFO == 51903
DBMS_MIN_REVISION_WITH_CLIENT_INFO == 54032
DBMS_MIN_REVISION_WITH_SERVER_TIMEZONE == 54058
DBMS_MIN_REVISION_WITH_QUOTA_KEY_IN_CLIENT_INFO == 54060

\* "ClickHouse" (DBMS_NAME) and the literals the client writes
DBMS_NAME == <<67, 108, 105, 99, 107, 72, 111, 117, 115, 101>>
StrClient == <<32, 99, 108, 105, 101, 110, 116>>
StrClickHouseClient == <<67, 108, 105, 99, 107, 72, 111, 117, 115, 101, 32, 99, 108, 105, 101, 110, 116>>
StrInitialAddress == <<91, 58, 58, 102, 102, 102, 102, 58, 49, 50, 55, 46, 48, 46, 48, 46, 49, 93, 58, 48>>
StrInsertInto == <<73, 78, 83, 69, 82, 84, 32, 73, 78, 84, 79, 32>>
StrValues == <<32, 86, 65, 76, 85, 69, 83>>

(***************************************************************************)
(* Packet codes and wire constants (protocol.h).                           *)
(***************************************************************************)
ClientHello == 0
ClientQuery == 1
ClientData == 2
ClientPing == 4

ServerHello == 0
ServerData == 1
ServerException == 2
ServerProgress == 3
ServerPong == 4
ServerEndOfStream == 5
ServerProfileInfo == 6

StagesComplete == 2
CompressionDisable == 0

(***************************************************************************)
(* Primitive codec (wire_format.h, base/coded.h).                          *)
(***************************************************************************)
RECURSIVE WriteVarint64(_)
\* 7-bit groups, least significant first, high bit = continuation
WriteVarint64(n) ==
    IF n < 128 THEN <<n>>
    ELSE <<128 + (n % 128)>> \o WriteVarint64(n \div 128)

\* WireFormat::WriteUInt64 is a varint write
WriteUInt64(n) == WriteVarint64(n)

RECURSIVE WriteFixed(_, _)
\* little-endian, w bytes
WriteFixed(n, w) ==
    IF w = 0 THEN <<>>
    ELSE <<n % 256>> \o WriteFixed(n \div 256, w - 1)

WriteString(s) == WriteVarint64(Len(s)) \o s

RECURSIVE StdToString(_)
\* std::to_string of an unsigned number: decimal digits as characters
StdToString(n) ==
    IF n < 10 THEN <<48 + n>>
    ELSE StdToString(n \div 10) \o <<48 + (n % 10)>>

\* the first k elements / all but the first k elements of a sequence
Take(s, k) == SubSeq(s, 1, k)
Drop(s, k) == SubSeq(s, k + 1, Len(s))

\* A read yields [ok, v, rest]; ok = FALSE means the stream ended before the
\* value was complete (everything that was there has been consumed).
ReadFail == [ok |-> FALSE, v |-> 0, rest |-> <<>>]

\* every value of 2^28 or more is read as this one (numbers that large only
\* ever count bytes or rows that are not there)
Huge == 268435456

RECURSIVE VarintValue(_, _)
\* value of the k-byte varint at the head of s
VarintValue(s, k) ==
    IF k = 0 THEN 0
    ELSE IF k > 4 THEN Huge
    ELSE (s[1] % 128) + 128 * VarintValue(Tail(s), k - 1)

\* number of bytes up to and including the first byte < 128; 0 if there is none
VarintLen(s) ==
    IF \E i \in 1..Len(s) : s[i] < 128
    THEN (CHOOSE i \in 1..Len(s) : s[i] < 128 /\ \A j \in 1..(i - 1) : s[j] >= 128)
    ELSE 0

\* the k-byte varint at the head of s (k = 0: the stream ends inside it)
ReadVarintOfLen(s, k) ==
    IF k = 0 \/ k > 10 THEN ReadFail
    ELSE [ok |-> TRUE, v |-> VarintValue(s, k), rest |-> Drop(s, k)]

ReadVarint64(s) == ReadVarintOfLen(s, VarintLen(s))

ReadUInt64(s) == ReadVarint64(s)

RECURSIVE FixedValue(_, _, _)
\* little-endian value of the first w bytes; the last byte carries the sign
\* when signed (two's complement)
FixedValue(s, w, signed) ==
    IF w = 1 THEN (IF signed /\ s[1] >= 128 THEN s[1] - 256 ELSE s[1])
    ELSE s[1] + 256 * FixedValue(Tail(s), w - 1, signed)

\* WireFormat::ReadFixed for a w-byte integer type
ReadFixed(s, w, signed) ==
    IF Len(s) < w THEN ReadFail
    ELSE [ok |-> TRUE, v |-> FixedValue(s, w, signed), rest |-> Drop(s, w)]

\* the bytes of a string whose length has been read as l
ReadStringBody(l) ==
    IF ~l.ok \/ Len(l.rest) < l.v THEN [ok |-> FALSE, v |-> <<>>, rest |-> <<>>]
    ELSE [ok |-> TRUE, v |-> Take(l.rest, l.v), rest |-> Drop(l.rest, l.v)]

ReadString(s) == ReadStringBody(ReadVarint64(s))

\* a number read, delivered as a one-element sequence
Boxed(r) == [ok |-> r.ok, v |-> <<r.v>>, rest |-> r.rest]

\* One read of the given kind: "v" varint, "s" string, "f1" bool / uint8_t,
\* "f4" int32_t.
\* The value is always delivered as a sequence (a number n as <<n>>).
ReadOne(s, kind) ==
    IF kind = "s" THEN ReadString(s)
    ELSE IF kind = "v" THEN Boxed(ReadUInt64(s))
    ELSE IF kind = "f1" THEN Boxed(ReadFixed(s, 1, FALSE))
    ELSE Boxed(ReadFixed(s, 4, TRUE))

\* value v in front of the values of the run t
FieldsCons(v, t) ==
    [ok |-> t.ok, vals |-> IF t.ok THEN <<v>> \o t.vals ELSE <<>>, rest |-> t.rest]

RECURSIVE ReadFields(_, _), FieldsAfter(_, _)
\* A run of reads, each followed by "if (!Read...) return false":
\* [ok, vals, rest]; the first failing read ends the run.
ReadFields(s, kinds) ==
    IF kinds = <<>> THEN [ok |-> TRUE, vals |-> <<>>, rest |-> s]
    ELSE FieldsAfter(ReadOne(s, Head(kinds)), Tail(kinds))

\* the run continues after the read r, or ends with its failure
FieldsAfter(r, kinds) ==
    IF ~r.ok THEN [ok |-> FALSE, vals |-> <<>>, rest |-> <<>>]
    ELSE FieldsCons(r.v, ReadFields(r.rest, kinds))

(***************************************************************************)
(* Columns and blocks (columns/factory.h, block.h).                        *)
(* A column is [name, type, data]: data is what Save writes for it.        *)
(* A block is [cols, rows].                                                *)
(***************************************************************************)
TypeUInt8 == <<85, 73, 110, 116, 56>>
TypeString == <<83, 116, 114, 105, 110, 103>>

\* Block(): no columns, no rows
EmptyBlock == [cols |-> <<>>, rows |-> 0]

\* CreateColumnByType: a column for a known descriptor, null otherwise
CreateColumnByType(type) == type \in {TypeUInt8, TypeString}

\* the string r in front of the strings t
StringsCons(r, t) ==
    [ok |-> t.ok, v |-> IF t.ok THEN WriteString(r.v) \o t.v ELSE <<>>, rest |-> t.rest]

RECURSIVE LoadStrings(_, _), StringsAfter(_, _)
LoadStrings(s, n) ==
    IF n = 0 THEN [ok |-> TRUE, v |-> <<>>, rest |-> s]
    ELSE StringsAfter(ReadString(s), n)

StringsAfter(r, n) ==
    IF ~r.ok THEN [ok |-> FALSE, v |-> <<>>, rest |-> <<>>]
    ELSE StringsCons(r, LoadStrings(r.rest, n - 1))

\* Column::Load(input, rows): [ok, v (the bytes of the column), rest]
ColumnLoad(type, s, rows) ==
    IF type = TypeUInt8
    THEN IF Len(s) < rows THEN [ok |-> FALSE, v |-> <<>>, rest |-> <<>>]
         ELSE [ok |-> TRUE, v |-> Take(s, rows), rest |-> Drop(s, rows)]
    ELSE LoadStrings(s, rows)

(***************************************************************************)
(* Sink callbacks (QueryEvents), recorded as [cb, arg].                    *)
(***************************************************************************)
Callback(name, arg) == [cb |-> name, arg |-> arg]

\* The outcome of a receive function:
\*   ret     the bool it returns (meaningless when it throws)
\*   thrown  "none", "runtime_error" or "ServerException"
\*   chain   the codes of the exception chain a ServerException carries
\*   rest    the unread input after it
\*   cbs     the callbacks it invoked, in order
\*   short   it ran into the end of the input
\*   code    the packet code it read, -1 if it read none
Outcome(ret, thrown, chain, rest, cbs, short, code) ==
    [ret |-> ret, thrown |-> thrown, chain |-> chain, rest |-> rest,
     cbs |-> cbs, short |-> short, code |-> code]

\* "return false" after a failed read
ReadFailed(code) == Outcome(FALSE, "none", <<>>, <<>>, <<>>, TRUE, code)

\* the column (name, type, data) in front of the columns t
ColumnsCons(name, type, data, t) ==
    [st |-> t.st, rest |-> t.rest,
     cols |-> IF t.st = "ok"
              THEN <<[name |-> name, type |-> type, data |-> data]>> \o t.cols
              ELSE <<>>]

RECURSIVE ReceiveColumns(_, _, _), ColumnNamed(_, _, _), ColumnLoaded(_, _, _, _)
\* the column loop of ReceiveData, n columns to go: [st, rest, cols] with st
\* "ok", "eof" (a name or type read failed), "load" (Load failed) or "type"
\* (unknown type)
ReceiveColumns(s, n, num_rows) ==
    IF n = 0 THEN [st |-> "ok", rest |-> s, cols |-> <<>>]
    ELSE ColumnNamed(ReadFields(s, <<"s", "s">>), n, num_rows)

\* ... after name and type have been read as h
ColumnNamed(h, n, num_rows) ==
    IF ~h.ok THEN [st |-> "eof", rest |-> <<>>, cols |-> <<>>]
    ELSE IF ~CreateColumnByType(h.vals[2])
         THEN [st |-> "type", rest |-> h.rest, cols |-> <<>>]
    ELSE ColumnLoaded(h,
                      IF num_rows # 0 THEN ColumnLoad(h.vals[2], h.rest, num_rows)
                      ELSE [ok |-> TRUE, v |-> <<>>, rest |-> h.rest],
                      n, num_rows)

\* ... after col->Load has returned l
ColumnLoaded(h, l, n, num_rows) ==
    IF ~l.ok THEN [st |-> "load", rest |-> <<>>, cols |-> <<>>]
    ELSE ColumnsCons(h.vals[1], h.vals[2], l.v, ReceiveColumns(l.rest, n - 1, num_rows))

\* the fields ReceiveData reads before the columns
DataHeaderKinds ==
    (IF REVISION >= DBMS_MIN_REVISION_WITH_TEMPORARY_TABLES THEN <<"s">> ELSE <<>>)
    \o (IF REVISION >= DBMS_MIN_REVISION_WITH_BLOCK_INFO
        THEN <<"v", "f1", "v", "f4", "v">> ELSE <<>>)
    \o <<"v", "v">>

\* (mutant) the sink is told of blocks with rows only
DataCallbacksIfRows(events, block) ==
    IF events /\ block.rows > 0
    THEN <<Callback("OnData", <<Len(block.cols), block.rows>>)>> ELSE <<>>

\* the sink call at the end of ReceiveData
DataCallbacks(events, block) ==
    IF events THEN <<Callback("OnData", <<Len(block.cols), block.rows>>)>> ELSE <<>>

\* (mutant) an unknown column type is passed over
DataDecodedAnyType(c, num_rows, events) ==
    IF c.st = "eof" THEN ReadFailed(ServerData)
    ELSE IF c.st = "load"
         THEN Outcome(FALSE, "runtime_error", <<>>, <<>>, <<>>, TRUE, ServerData)
    ELSE Outcome(FALSE, "none", <<>>, c.rest,
                 DataCallbacks(events, [cols |-> c.cols, rows |-> num_rows]),
                 FALSE, ServerData)

\* ReceiveData after the column loop has ended as c
DataDecoded(c, num_rows, events) ==
    IF c.st = "eof" THEN ReadFailed(ServerData)
    ELSE IF c.st = "load"
         THEN Outcome(FALSE, "runtime_error", <<>>, <<>>, <<>>, TRUE, ServerData)
    ELSE IF c.st = "type"
         THEN Outcome(FALSE, "runtime_error", <<>>, c.rest, <<>>, FALSE, ServerData)
    ELSE Outcome(FALSE, "none", <<>>, c.rest,
                 DataCallbacks(events, [cols |-> c.cols, rows |-> num_rows]),
                 FALSE, ServerData)

\* ReceiveData after the fields before the columns have been read as h;
\* num_columns and num_rows are the last two of them
DataHeaderRead(h, events) ==
    IF ~h.ok THEN ReadFailed(ServerData)
    ELSE DataDecoded(ReceiveColumns(h.rest, h.vals[Len(h.vals) - 1][1],
                                    h.vals[Len(h.vals)][1]),
                     h.vals[Len(h.vals)][1], events)

\* bool ReceiveData()
ReceiveData(s, events) == DataHeaderRead(ReadFields(s, DataHeaderKinds), events)

RECURSIVE ReadChain(_, _), ChainFrame(_, _)
\* the do-while of ReceiveException, the frames read so far having the codes
\* chain: [ok, chain (the codes of all frames), rest]
ReadChain(s, chain) == ChainFrame(ReadFields(s, <<"f4", "s", "s", "s", "f1">>), chain)

\* ... after one more frame has been read as f
ChainFrame(f, chain) ==
    IF ~f.ok THEN [ok |-> FALSE, chain |-> <<>>, rest |-> <<>>]
    ELSE IF f.vals[5][1] # 0 THEN ReadChain(f.rest, chain \o f.vals[1])
    ELSE [ok |-> TRUE, chain |-> chain \o f.vals[1], rest |-> f.rest]

\* (mutant) ReceiveException always throws
RethrowsAlways(rethrow, opt) == TRUE

\* whether ReceiveException throws: its argument, or the option
Rethrows(rethrow, opt) == rethrow \/ opt

\* ReceiveException after the chain has been read as c
ExceptionDecoded(c, events, rethrow, opt) ==
    IF ~c.ok THEN ReadFailed(ServerException)
    ELSE Outcome(TRUE,
                 IF Rethrows(rethrow, opt) THEN "ServerException" ELSE "none",
                 IF Rethrows(rethrow, opt) THEN c.chain ELSE <<>>,
                 c.rest,
                 IF events THEN <<Callback("OnServerException", c.chain)>> ELSE <<>>,
                 FALSE, ServerException)

\* bool ReceiveException(bool rethrow); opt is options_.rethrow_exceptions
ReceiveException(s, events, rethrow, opt) ==
    ExceptionDecoded(ReadChain(s, <<>>), events, rethrow, opt)

\* the fields of a Progress packet after its code
ProgressKinds ==
    <<"v", "v">>
    \o (IF REVISION >= DBMS_MIN_REVISION_WITH_TOTAL_ROWS_IN_PROGRESS THEN <<"v">> ELSE <<>>)

\* the fields of a ProfileInfo packet after its code
ProfileKinds == <<"v", "v", "v", "f1", "v", "f1">>

\* the numbers of a run of numeric fields, flattened
Flat(vals) == [i \in 1..Len(vals) |-> vals[i][1]]

\* (mutant) case Data returns what ReceiveData returned
DataCaseReturnsResult(d) == d

\* case Data: whatever ReceiveData returns, "return true"
DataCase(d) == [d EXCEPT !.ret = TRUE]

\* case Exception: "return false"
ExceptionCase(e) == [e EXCEPT !.ret = FALSE]

\* (mutant) case ProfileInfo reports to OnProgress
ProfileCaseAsProgress(f, events) ==
    IF ~f.ok THEN ReadFailed(ServerProfileInfo)
    ELSE Outcome(TRUE, "none", <<>>, f.rest,
                 IF events THEN <<Callback("OnProgress", Flat(f.vals))>> ELSE <<>>,
                 FALSE, ServerProfileInfo)

\* case ProfileInfo, the fields read as f
ProfileCase(f, events) ==
    IF ~f.ok THEN ReadFailed(ServerProfileInfo)
    ELSE Outcome(TRUE, "none", <<>>, f.rest,
                 IF events THEN <<Callback("OnProfile", Flat(f.vals))>> ELSE <<>>,
                 FALSE, ServerProfileInfo)

\* case Progress, the fields read as f
ProgressCase(f, events) ==
    IF ~f.ok THEN ReadFailed(ServerProgress)
    ELSE Outcome(TRUE, "none", <<>>, f.rest,
                 IF events THEN <<Callback("OnProgress", Flat(f.vals))>> ELSE <<>>,
                 FALSE, ServerProgress)

\* case Pong
PongCase(rest) == Outcome(TRUE, "none", <<>>, rest, <<>>, FALSE, ServerPong)

\* (mutant) case EndOfStream goes on with the loop
EndOfStreamCaseContinues(rest, events) ==
    Outcome(TRUE, "none", <<>>, rest,
            IF events THEN <<Callback("OnFinish", <<>>)>> ELSE <<>>,
            FALSE, ServerEndOfStream)

\* case EndOfStream
EndOfStreamCase(rest, events) ==
    Outcome(FALSE, "none", <<>>, rest,
            IF events THEN <<Callback("OnFinish", <<>>)>> ELSE <<>>,
            FALSE, ServerEndOfStream)

\* ReceivePacket after the packet code has been read as c: the switch
Dispatch(c, events, opt) ==
    IF ~c.ok THEN ReadFailed(-1)
    ELSE IF c.v = ServerData THEN DataCase(ReceiveData(c.rest, events))
    ELSE IF c.v = ServerException
         THEN ExceptionCase(ReceiveException(c.rest, events, FALSE, opt))
    ELSE IF c.v = ServerProfileInfo
         THEN ProfileCase(ReadFields(c.rest, ProfileKinds), events)
    ELSE IF c.v = ServerProgress
         THEN ProgressCase(ReadFields(c.rest, ProgressKinds), events)
    ELSE IF c.v = ServerPong THEN PongCase(c.rest)
    ELSE IF c.v = ServerEndOfStream THEN EndOfStreamCase(c.rest, events)
    ELSE Outcome(FALSE, "runtime_error", <<>>, c.rest, <<>>, FALSE, c.v)

\* bool ReceivePacket(uint64_t* server_packet)
ReceivePacket(s, events, opt) == Dispatch(ReadVarint64(s), events, opt)

\* ServerInfo before the handshake has filled it in
NoServerInfo ==
    [name |-> <<>>, timezone |-> <<>>, version_major |-> 0, version_minor |-> 0,
     revision |-> 0]

\* (mutant) the timezone gate, off by one
HelloHasTimezoneAbove(revision) == revision > DBMS_MIN_REVISION_WITH_SERVER_TIMEZONE

\* the timezone gate of ReceiveHello
HelloHasTimezone(revision) == revision >= DBMS_MIN_REVISION_WITH_SERVER_TIMEZONE

\* server_info_ as the four reads after the Hello code fill it in
HelloInfo(f) ==
    [name |-> f.vals[1], timezone |-> <<>>, version_major |-> f.vals[2][1],
     version_minor |-> f.vals[3][1], revision |-> f.vals[4][1]]

\* ReceiveHello after the timezone has been read as tz (or left out)
HelloDone(info, tz) ==
    IF ~tz.ok THEN [out |-> ReadFailed(ServerHello), info |-> info]
    ELSE [out |-> Outcome(TRUE, "none", <<>>, tz.rest, <<>>, FALSE, ServerHello),
          info |-> [info EXCEPT !.timezone = tz.v]]

\* ReceiveHello after name, versions and revision have been read as f
HelloFields(f) ==
    IF ~f.ok THEN [out |-> ReadFailed(ServerHello), info |-> NoServerInfo]
    ELSE HelloDone(HelloInfo(f),
                   IF HelloHasTimezone(f.vals[4][1]) THEN ReadString(f.rest)
                   ELSE [ok |-> TRUE, v |-> <<>>, rest |-> f.rest])

\* ReceiveHello after the packet code has been read as c
HelloDispatch(c, opt) ==
    IF ~c.ok THEN [out |-> ReadFailed(-1), info |-> NoServerInfo]
    ELSE IF c.v = ServerHello
         THEN HelloFields(ReadFields(c.rest, <<"s", "v", "v", "v">>))
    ELSE IF c.v = ServerException
         THEN [out |-> ExceptionCase(ReceiveException(c.rest, FALSE, TRUE, opt)),
               info |-> NoServerInfo]
    ELSE [out |-> Outcome(FALSE, "none", <<>>, c.rest, <<>>, FALSE, c.v),
          info |-> NoServerInfo]

\* bool ReceiveHello(): the outcome, and server_info_ as it leaves it
ReceiveHello(s, opt) == HelloDispatch(ReadVarint64(s), opt)

(***************************************************************************)
(* What the client writes.  A written packet is its bytes, code first.     *)
(***************************************************************************)
RECURSIVE SaveColumns(_)
\* the loop over the block's columns in DataPacket
SaveColumns(cols) ==
    IF cols = <<>> THEN <<>>
    ELSE WriteString(Head(cols).name) \o WriteString(Head(cols).type)
         \o Head(cols).data \o SaveColumns(Tail(cols))

\* what follows the packet code in a Data packet written for revision rev
\* (is_overflows = false, bucket_num = -1 as BlockInfo's defaults)
DataBody(block, rev) ==
    (IF rev >= DBMS_MIN_REVISION_WITH_TEMPORARY_TABLES THEN WriteString(<<>>) ELSE <<>>)
    \o (IF rev >= DBMS_MIN_REVISION_WITH_BLOCK_INFO
        THEN WriteUInt64(1) \o WriteFixed(0, 1) \o WriteUInt64(2)
             \o WriteFixed(-1, 4) \o WriteUInt64(0)
        ELSE <<>>)
    \o WriteUInt64(Len(block.cols)) \o WriteUInt64(block.rows)
    \o SaveColumns(block.cols)

\* void DataPacket(const Block&): the packet it writes (and flushes)
DataPacket(block, rev) == WriteUInt64(ClientData) \o DataBody(block, rev)

\* (mutant) the quota key gate, off by one
ClientInfoBytesQuotaAbove(rev) ==
    IF rev >= DBMS_MIN_REVISION_WITH_CLIENT_INFO
    THEN WriteFixed(1, 1) \o WriteString(<<>>) \o WriteString(<<>>)
         \o WriteString(StrInitialAddress) \o WriteFixed(1, 1)
         \o WriteString(<<>>) \o WriteString(<<>>) \o WriteString(StrClickHouseClient)
         \o WriteUInt64(DBMS_VERSION_MAJOR) \o WriteUInt64(DBMS_VERSION_MINOR)
         \o WriteUInt64(REVISION)
         \o (IF rev > DBMS_MIN_REVISION_WITH_QUOTA_KEY_IN_CLIENT_INFO
             THEN WriteString(<<>>) ELSE <<>>)
    ELSE <<>>

\* the ClientInfo part of a Query packet
ClientInfoBytes(rev) ==
    IF rev >= DBMS_MIN_REVISION_WITH_CLIENT_INFO
    THEN WriteFixed(1, 1) \o WriteString(<<>>) \o WriteString(<<>>)
         \o WriteString(StrInitialAddress) \o WriteFixed(1, 1)
         \o WriteString(<<>>) \o WriteString(<<>>) \o WriteString(StrClickHouseClient)
         \o WriteUInt64(DBMS_VERSION_MAJOR) \o WriteUInt64(DBMS_VERSION_MINOR)
         \o WriteUInt64(REVISION)
         \o (IF rev >= DBMS_MIN_REVISION_WITH_QUOTA_KEY_IN_CLIENT_INFO
             THEN WriteString(<<>>) ELSE <<>>)
    ELSE <<>>

\* the Query packet of SendQuery, up to the query text
QueryPacket(query, id, rev) ==
    WriteUInt64(ClientQuery) \o WriteString(StdToString(id))
    \o ClientInfoBytes(rev)
    \o WriteString(<<>>)
    \o WriteUInt64(StagesComplete) \o WriteUInt64(CompressionDisable)
    \o WriteString(query)

\* bool SendHello(): the packet it writes; db, user, password are the options
SendHello(db, user, password) ==
    WriteUInt64(ClientHello) \o WriteString(DBMS_NAME \o StrClient)
    \o WriteUInt64(DBMS_VERSION_MAJOR) \o WriteUInt64(DBMS_VERSION_MINOR)
    \o WriteUInt64(REVISION)
    \o WriteString(db) \o WriteString(user) \o WriteString(password)

\* the output side: buf is buffered_output_, wire what has reached the socket
Write(o, packet) == [o EXCEPT !.buf = Append(@, packet)]

\* (mutant) a flush that leaves the buffer as it is
FlushKeeps(o) == o

\* output_.Flush()
Flush(o) == [buf |-> <<>>, wire |-> o.wire \o o.buf]

\* DataPacket: write the Data packet, flush
SendData(o, b, rev) == Flush(Write(o, DataPacket(b, rev)))

\* (mutant) SendQuery without the empty block
SendQueryNoMarker(o, query, id, rev) == Flush(Write(o, QueryPacket(query, id, rev)))

\* SendQuery: write the Query packet, DataPacket(Block()), flush
SendQuery(o, query, id, rev) ==
    Flush(SendData(Write(o, QueryPacket(query, id, rev)), EmptyBlock, rev))

(***************************************************************************)
(* The server, as far as the client can see it: the packets a server of    *)
(* revision rev writes, laid out as the receive functions read them.       *)
(***************************************************************************)
\* the server revisions considered: one below every gate, one at or above
\* every gate
Revisions == {50263, 54060}

\* each gate and the revision below it
GateRevisions == {50263, 50264, 51553, 51554, 51902, 51903,
                  54031, 54032, 54057, 54058, 54059, 54060}

StrUTC == <<85, 84, 67>>
StrName == <<97>>
TypeUnknown == <<88>>

SrvHello(rev) ==
    WriteUInt64(ServerHello) \o WriteString(DBMS_NAME)
    \o WriteUInt64(1) \o WriteUInt64(1) \o WriteUInt64(rev)
    \o (IF rev >= DBMS_MIN_REVISION_WITH_SERVER_TIMEZONE THEN WriteString(StrUTC) ELSE <<>>)

SrvData(b, rev) == WriteUInt64(ServerData) \o DataBody(b, rev)

RECURSIVE SrvFrames(_)
SrvFrames(chain) ==
    WriteFixed(Head(chain), 4) \o WriteString(StrName) \o WriteString(<<>>)
    \o WriteString(<<>>)
    \o (IF Len(chain) > 1 THEN WriteFixed(1, 1) \o SrvFrames(Tail(chain))
        ELSE WriteFixed(0, 1))

SrvException(chain) == WriteUInt64(ServerException) \o SrvFrames(chain)

SrvProgress(rev) ==
    WriteUInt64(ServerProgress) \o WriteUInt64(10) \o WriteUInt64(80)
    \o (IF rev >= DBMS_MIN_REVISION_WITH_TOTAL_ROWS_IN_PROGRESS
        THEN WriteUInt64(100) ELSE <<>>)

SrvProfile ==
    WriteUInt64(ServerProfileInfo) \o WriteUInt64(1) \o WriteUInt64(1)
    \o WriteUInt64(8) \o WriteFixed(0, 1) \o WriteUInt64(0) \o WriteFixed(0, 1)

\* blocks: a header (one column, no rows), one row of a number, one row of a
\* string, one row of an unknown type
HeaderBlock == [cols |-> <<[name |-> StrName, type |-> TypeUInt8, data |-> <<>>]>>, rows |-> 0]
RowBlock == [cols |-> <<[name |-> StrName, type |-> TypeUInt8, data |-> <<1>>]>>, rows |-> 1]
StringBlock == [cols |-> <<[name |-> StrName, type |-> TypeString, data |-> WriteString(StrUTC)]>>,
                rows |-> 1]
UnknownBlock == [cols |-> <<[name |-> StrName, type |-> TypeUnknown, data |-> <<1>>]>>, rows |-> 1]

\* a code no case of ReceivePacket handles
UnknownCode == 7

\* what the server may write while the client runs a call
SrvPackets(rev) ==
    {SrvData(b, rev) : b \in {EmptyBlock, HeaderBlock, RowBlock, UnknownBlock}}
    \cup {SrvException(<<516>>), SrvException(<<516, 1000>>)}
    \cup {SrvProgress(rev), SrvProfile, WriteUInt64(ServerPong),
          WriteUInt64(ServerEndOfStream), WriteUInt64(UnknownCode)}

\* the greatest length of an exception chain a client is to accept, and a
\* chain that is longer by one frame
ChainCap == 32
DeepChain == [i \in 1..(ChainCap + 1) |-> 516]

\* what the server may answer to the client's Hello
SrvHelloReplies(rev) ==
    {SrvHello(rev), SrvException(<<516>>), SrvException(<<516, 1000>>),
     SrvException(DeepChain), WriteUInt64(ServerPong)}

\* the well-formed replies of a query or an insert
SrvPlainPackets(rev) ==
    {SrvData(EmptyBlock, rev), SrvData(RowBlock, rev), SrvData(StringBlock, rev),
     SrvProgress(rev), WriteUInt64(ServerEndOfStream)}

\* the three sets above, tabulated by revision
SrvPacketsOf == [rev \in GateRevisions |-> SrvPackets(rev)]
SrvPlainPacketsOf == [rev \in GateRevisions |-> SrvPlainPackets(rev)]
SrvHelloRepliesOf == [rev \in GateRevisions |-> SrvHelloReplies(rev)]

\* where the stream may end inside packet p: after its first byte, before
\* its last byte; Len(p) is the whole packet
Cuts(p) == {k \in {1, Len(p) - 1, Len(p)} : k >= 1}

\* the arguments callers pass
QueryTexts == {<<81>>}
TableNames == {<<116>>}
CallerBlocks == {RowBlock}

\* values an uninitialised uint64_t may hold: the Data code, or something else
UninitValues == {ServerData, ServerHello}

(***************************************************************************)
(* State.                                                                  *)
(***************************************************************************)
VARIABLES
    counter,        \* GenerateQueryId's static counter
    sessions,       \* Client objects constructed so far
    calls,          \* ExecuteQuery / Insert / Ping calls made so far
    pc,             \* where the one live Client::Impl is: "none" (no object),
                    \* "hello", "idle", "query", "insert_wait", "insert_eos", "ping"
    options_,       \* [rethrow_exceptions]
    events_,        \* TRUE iff events_ is not null
    query_id_,
    server_info_,
    input,          \* bytes the server has written and the client has not read
    closed,         \* the server has closed the connection
    output_,        \* packets written and not flushed
    wire,           \* packets flushed to the socket of this connection, in order
    server_packet,  \* Insert's local
    block,          \* Insert's argument
    callbacks,      \* what the sink of the current (last) call was told, in order
    received,       \* the packets of this connection whose code was read, in order
    rmark,          \* Len(received) when the current (last) call began
    consumed,       \* the bytes the last receive took from the input
    result,         \* how the last call ended: [op, kind, chain]
    mark,           \* Len(wire) when the current (last) call began
    srv_rev,        \* the revision of the server connected to
    srv_sent,       \* packets the server has written during calls
    srv_log         \* their codes, and whether each was written whole

vars == <<counter, sessions, calls, pc, options_, events_, query_id_, server_info_,
          input, closed, output_, wire, server_packet, block, callbacks, received,
          rmark, consumed, result, mark, srv_rev, srv_sent, srv_log>>

Receiving == {"query", "insert_wait", "insert_eos", "ping"}

Result(op, kind, chain) == [op |-> op, kind |-> kind, chain |-> chain]

\* the log entry of a receive
Entry(r) == [code |-> r.code, short |-> r.short, thrown |-> r.thrown, ret |-> r.ret]

\* the bytes a receive took
Eaten(r) == Take(input, Len(input) - Len(r.rest))

\* a blocking read returns once the bytes are there or the peer has closed
Returns(r) == ~r.short \/ closed

\* how a call that stops with outcome r ends
Ending(r) == IF r.thrown # "none" THEN r.thrown ELSE "ok"

Init ==
    /\ counter = 0
    /\ sessions = 0
    /\ calls = 0
    /\ pc = "none"
    /\ options_ = [rethrow_exceptions |-> FALSE]
    /\ events_ = FALSE
    /\ query_id_ = 0
    /\ server_info_ = NoServerInfo
    /\ input = <<>>
    /\ closed = FALSE
    /\ output_ = <<>>
    /\ wire = <<>>
    /\ server_packet = 0
    /\ block = EmptyBlock
    /\ callbacks = <<>>
    /\ received = <<>>
    /\ consumed = <<>>
    /\ result = Result("none", "none", <<>>)
    /\ mark = 0
    /\ srv_rev = 0
    /\ srv_sent = 0
    /\ srv_log = <<>>
    /\ rmark = 0

\* the output side after a send
Sent(o) == output_' = o.buf /\ wire' = o.wire

\* the current output side
Out == [buf |-> output_, wire |-> wire]

\* the receive log after a receive with outcome r
Logged(r) == IF r.code = -1 THEN received ELSE Append(received, Entry(r))

\* uint64_t GenerateQueryId(): ++counter
GenerateQueryId(c) == c + 1

\* Client::Impl::Impl up to the read of ReceiveHello: the query id is drawn,
\* the socket connects (to a server of some revision), SendHello writes and
\* flushes
Construct(rethrow, rev) ==
    /\ pc = "none"
    /\ sessions < MaxSessions
    /\ sessions' = sessions + 1
    /\ counter' = GenerateQueryId(counter)
    /\ query_id_' = GenerateQueryId(counter)
    /\ options_' = [rethrow_exceptions |-> rethrow]
    /\ events_' = FALSE
    /\ server_info_' = NoServerInfo
    /\ Sent(Flush(Write([buf |-> <<>>, wire |-> <<>>], SendHello(<<>>, <<>>, <<>>))))
    /\ input' = <<>>
    /\ closed' = FALSE
    /\ srv_rev' = rev
    /\ srv_sent' = 0
    /\ srv_log' = <<>>
    /\ rmark' = 0
    /\ pc' = "hello"
    /\ result' = Result("Construct", "pending", <<>>)
    /\ consumed' = <<>>
    /\ callbacks' = <<>>
    /\ received' = <<>>
    /\ mark' = 0
    /\ server_packet' = 0
    /\ block' = EmptyBlock
    /\ UNCHANGED calls

\* the constructor after ReceiveHello has ended as h: Handshake's result,
\* the throw
HandshakeEnds(h) ==
    /\ Returns(h.out)
    /\ consumed' = Eaten(h.out)
    /\ input' = h.out.rest
    /\ IF h.out.thrown # "none"
       THEN /\ pc' = "none"
            /\ result' = Result("Construct", h.out.thrown, h.out.chain)
            /\ UNCHANGED server_info_
       ELSE IF h.out.ret
       THEN /\ pc' = "idle"
            /\ result' = Result("Construct", "ok", <<>>)
            /\ server_info_' = h.info
       ELSE /\ pc' = "none"
            /\ result' = Result("Construct", "runtime_error", <<>>)
            /\ UNCHANGED server_info_

\* the rest of the constructor: ReceiveHello and what follows
HandshakeReceive ==
    /\ pc = "hello"
    /\ HandshakeEnds(ReceiveHello(input, options_.rethrow_exceptions))
    /\ UNCHANGED <<counter, sessions, calls, options_, events_, query_id_, closed, output_,
                   wire, server_packet, block, callbacks, received, mark, srv_rev, srv_sent,
                   rmark, srv_log>>

\* ~Impl(): Disconnect
Destroy ==
    /\ pc = "idle"
    /\ pc' = "none"
    /\ input' = <<>>
    /\ closed' = FALSE
    /\ server_info_' = NoServerInfo
    /\ result' = Result("Destroy", "ok", <<>>)
    /\ UNCHANGED <<counter, sessions, calls, options_, events_, query_id_, output_, wire,
                   server_packet, block, callbacks, received, consumed, mark,
                   srv_rev, srv_sent, received, rmark, srv_log>>

\* ExecuteQuery up to the first read: EnsureNull installs the sink, SendQuery
ExecuteQuery(text) ==
    /\ pc = "idle"
    /\ calls < MaxCalls
    /\ calls' = calls + 1
    /\ events_' = TRUE
    /\ Sent(SendQuery(Out, text, query_id_, server_info_.revision))
    /\ mark' = Len(wire)
    /\ callbacks' = <<>>
    /\ rmark' = Len(received)
    /\ result' = Result("ExecuteQuery", "pending", <<>>)
    /\ pc' = "query"
    /\ UNCHANGED <<counter, sessions, options_, query_id_, server_info_, input, closed,
                   server_packet, block, consumed, srv_rev, srv_sent, received, srv_log>>

\* a turn of "while (ReceivePacket()) ;" whose ReceivePacket ended as r, in
\* the function op: the loop goes on, or the function is left
LoopTurn(r, op) ==
    /\ Returns(r)
    /\ consumed' = Eaten(r)
    /\ input' = r.rest
    /\ callbacks' = callbacks \o r.cbs
    /\ received' = Logged(r)
    /\ IF r.thrown # "none" \/ ~r.ret
       THEN /\ pc' = "idle"
            /\ result' = Result(op, Ending(r), r.chain)
       ELSE UNCHANGED <<pc, result>>

\* (mutant) ExecuteQuery leaves events_ as it is
EnsureNullOnExitNever == events_' = events_

\* ~EnsureNull when ExecuteQuery is left, by return or by throw
EnsureNullOnExit == events_' = IF pc' = "query" THEN events_ ELSE FALSE

\* one turn of "while (ReceivePacket()) ;" in ExecuteQuery
ExecuteQueryReceive ==
    /\ pc = "query"
    /\ LoopTurn(ReceivePacket(input, events_, options_.rethrow_exceptions), "ExecuteQuery")
    /\ EnsureNullOnExit
    /\ UNCHANGED <<counter, sessions, calls, options_, query_id_, server_info_, closed,
                   output_, wire, server_packet, block, mark, srv_rev, srv_sent, rmark,
                   srv_log>>

\* a turn of ExecuteQuery's loop in which the sink method that ReceivePacket
\* calls throws: the packet has been read, the exception leaves ExecuteQuery
SinkThrows(r) ==
    /\ Returns(r)
    /\ r.cbs # <<>>
    /\ consumed' = Eaten(r)
    /\ input' = r.rest
    /\ callbacks' = callbacks \o r.cbs
    /\ received' = Append(received, [Entry(r) EXCEPT !.thrown = "sink"])
    /\ pc' = "idle"
    /\ result' = Result("ExecuteQuery", "sink", <<>>)

ExecuteQuerySinkThrows ==
    /\ pc = "query"
    /\ SinkThrows(ReceivePacket(input, events_, options_.rethrow_exceptions))
    /\ EnsureNullOnExit
    /\ UNCHANGED <<counter, sessions, calls, options_, query_id_, server_info_, closed,
                   output_, wire, server_packet, block, mark, srv_rev, srv_sent, rmark,
                   srv_log>>

\* Insert up to the first read: SendQuery; server_packet is declared
\* without a value
Insert(table_name, b, garbage) ==
    /\ pc = "idle"
    /\ calls < MaxCalls
    /\ calls' = calls + 1
    /\ Sent(SendQuery(Out, StrInsertInto \o table_name \o StrValues, query_id_,
                        server_info_.revision))
    /\ mark' = Len(wire)
    /\ block' = b
    /\ server_packet' = garbage
    /\ rmark' = Len(received)
    /\ result' = Result("Insert", "pending", <<>>)
    /\ pc' = "insert_wait"
    /\ UNCHANGED <<counter, sessions, options_, events_, query_id_, server_info_, input,
                   closed, consumed, srv_rev, srv_sent, received, callbacks, srv_log>>

\* server_packet after a ReceivePacket(&server_packet) that ended as r
ServerPacketAfter(r) == IF r.code = -1 THEN server_packet ELSE r.code

\* a turn of Insert's first loop whose ReceivePacket ended as r, leaving
\* server_packet = sp: on a Data code the loop is left and the block and the
\* end-of-data marker are sent
AwaitTurn(r, sp) ==
    /\ Returns(r)
    /\ consumed' = Eaten(r)
    /\ input' = r.rest
    /\ callbacks' = callbacks \o r.cbs
    /\ received' = Logged(r)
    /\ server_packet' = sp
    /\ IF r.thrown # "none"
       THEN /\ pc' = "idle"
            /\ result' = Result("Insert", r.thrown, r.chain)
            /\ UNCHANGED <<output_, wire>>
       ELSE IF sp = ServerData
       THEN /\ pc' = "insert_eos"
            /\ Sent(SendData(SendData(Out, block, server_info_.revision),
                               EmptyBlock, server_info_.revision))
            /\ UNCHANGED result
       ELSE UNCHANGED <<pc, result, output_, wire>>

\* ... after ReceivePacket has ended as r
AwaitReceived(r) == AwaitTurn(r, ServerPacketAfter(r))

\* one turn of Insert's first loop
InsertAwait ==
    /\ pc = "insert_wait"
    /\ AwaitReceived(ReceivePacket(input, events_, options_.rethrow_exceptions))
    /\ UNCHANGED <<counter, sessions, calls, options_, events_, query_id_, server_info_,
                   closed, block, mark, srv_rev, srv_sent, rmark, srv_log>>

\* one turn of Insert's final "while (ReceivePacket()) ;"
InsertEos ==
    /\ pc = "insert_eos"
    /\ LoopTurn(ReceivePacket(input, events_, options_.rethrow_exceptions), "Insert")
    /\ UNCHANGED <<counter, sessions, calls, options_, events_, query_id_, server_info_,
                   closed, output_, wire, server_packet, block, mark, srv_rev, srv_sent,
                   rmark, srv_log>>

\* how Ping ends, given the outcome of its one ReceivePacket
PingEnding(r) == Ending(r)

\* Ping up to the read: the Ping code is written and flushed
Ping ==
    /\ pc = "idle"
    /\ calls < MaxCalls
    /\ calls' = calls + 1
    /\ Sent(Flush(Write(Out, WriteUInt64(ClientPing))))
    /\ mark' = Len(wire)
    /\ rmark' = Len(received)
    /\ result' = Result("Ping", "pending", <<>>)
    /\ pc' = "ping"
    /\ UNCHANGED <<counter, sessions, options_, events_, query_id_, server_info_, input,
                   closed, server_packet, block, consumed, srv_rev, srv_sent, received, callbacks, srv_log>>

\* Ping after its ReceivePacket has ended as r
PingEnds(r) ==
    /\ Returns(r)
    /\ consumed' = Eaten(r)
    /\ input' = r.rest
    /\ callbacks' = callbacks \o r.cbs
    /\ received' = Logged(r)
    /\ pc' = "idle"
    /\ result' = Result("Ping", PingEnding(r), r.chain)

\* the one ReceivePacket() of Ping, its result unused
PingReceive ==
    /\ pc = "ping"
    /\ PingEnds(ReceivePacket(input, events_, options_.rethrow_exceptions))
    /\ UNCHANGED <<counter, sessions, calls, options_, events_, query_id_, server_info_,
                   closed, output_, wire, server_packet, block, mark, srv_rev, srv_sent,
                   rmark, srv_log>>

\* the server answers the client's Hello with one of replies: a whole packet,
\* or the first k bytes of one and then the end of the stream
ServerHelloReply(replies) ==
    /\ pc = "hello"
    /\ input = <<>>
    /\ ~closed
    /\ \E p \in replies : \E k \in Cuts(p) :
          /\ input' = Take(p, k)
          /\ closed' = (k < Len(p))
    /\ UNCHANGED <<counter, sessions, calls, pc, options_, events_, query_id_,
                   server_info_, output_, wire, server_packet, block, callbacks, received,
                   consumed, result, mark, srv_rev, srv_sent, rmark, srv_log>>

\* the server may write: little is unread, or the client waits for more bytes
\* of the packet it is reading
MayWrite ==
    \/ Len(input) <= MaxUnread
    \/ ReceivePacket(input, events_, options_.rethrow_exceptions).short

\* the server writes packet p while a call is running: all of it, or the
\* first k bytes and then the end of the stream
ServerWrite(p, k) ==
    /\ srv_sent' = srv_sent + 1
    /\ srv_log' = Append(srv_log, [code |-> p[1], whole |-> k = Len(p)])
    /\ input' = input \o Take(p, k)
    /\ closed' = (k < Len(p))

\* a server that may write anything, and may stop inside a packet
ServerSend ==
    /\ pc \in Receiving
    /\ ~closed
    /\ srv_sent < MaxPackets
    /\ MayWrite
    /\ \E p \in SrvPacketsOf[srv_rev] : \E k \in Cuts(p) : ServerWrite(p, k)
    /\ UNCHANGED <<counter, sessions, calls, pc, options_, events_, query_id_,
                   server_info_, output_, wire, server_packet, block, callbacks, received,
                   consumed, result, mark, srv_rev, rmark>>

\* a server that writes whole, well-formed packets
ServerSendPlain ==
    /\ pc \in Receiving
    /\ ~closed
    /\ srv_sent < MaxPackets
    /\ MayWrite
    /\ \E p \in SrvPlainPacketsOf[srv_rev] : ServerWrite(p, Len(p))
    /\ UNCHANGED <<counter, sessions, calls, pc, options_, events_, query_id_,
                   server_info_, output_, wire, server_packet, block, callbacks, received,
                   consumed, result, mark, srv_rev, rmark>>

\* the server closes the connection between packets
ServerClose ==
    /\ pc # "none"
    /\ ~closed
    /\ closed' = TRUE
    /\ UNCHANGED <<counter, sessions, calls, pc, options_, events_, query_id_,
                   server_info_, input, output_, wire, server_packet, block, callbacks,
                   received, consumed, result, mark, srv_rev, srv_sent, rmark, srv_log>>

Next ==
    \/ \E rethrow \in BOOLEAN, rev \in Revisions : Construct(rethrow, rev)
    \/ HandshakeReceive
    \/ Destroy
    \/ \E text \in QueryTexts : ExecuteQuery(text)
    \/ ExecuteQueryReceive
    \/ \E t \in TableNames, b \in CallerBlocks, g \in UninitValues : Insert(t, b, g)
    \/ InsertAwait
    \/ InsertEos
    \/ Ping
    \/ PingReceive
    \/ ServerHelloReply(SrvHelloRepliesOf[srv_rev])
    \/ ServerSend
    \/ ServerClose

Spec == Init /\ [][Next]_vars

\* The same client against a server of every gate revision that answers the
\* calls with whole, well-formed packets.
NextGates ==
    \/ \E rethrow \in BOOLEAN, rev \in GateRevisions : Construct(rethrow, rev)
    \/ HandshakeReceive
    \/ \E text \in QueryTexts : ExecuteQuery(text)
    \/ ExecuteQueryReceive
    \/ \E t \in TableNames, b \in CallerBlocks, g \in UninitValues : Insert(t, b, g)
    \/ InsertAwait
    \/ InsertEos
    \/ Ping
    \/ PingReceive
    \/ ServerHelloReply(SrvHelloRepliesOf[srv_rev])
    \/ ServerSendPlain
    \/ ServerClose

SpecGates == Init /\ [][NextGates]_vars

\* The client of Spec with a sink whose methods may throw.
SpecSink == Init /\ [][Next \/ ExecuteQuerySinkThrows]_vars

(***************************************************************************)
(* Properties.                                                             *)
(***************************************************************************)
Last(s) == s[Len(s)]

\* the packets received, and the packets sent, by the current (last) call
CallReceived == SubSeq(received, rmark + 1, Len(received))
CallWire == SubSeq(wire, mark + 1, Len(wire))

\* a call of op has ended
Ended(op) == result.op = op /\ result.kind # "pending"

\* the packet of log entry e was read to its end and handled
Complete(e) == ~e.short /\ e.thrown # "runtime_error"

Terminal(code) == code \in {ServerEndOfStream, ServerException}

\* the callback the packet table gives for a code
DictatedBy(code) ==
    IF code = ServerData THEN <<"OnData">>
    ELSE IF code = ServerProgress THEN <<"OnProgress">>
    ELSE IF code = ServerProfileInfo THEN <<"OnProfile">>
    ELSE IF code = ServerException THEN <<"OnServerException">>
    ELSE IF code = ServerEndOfStream THEN <<"OnFinish">>
    ELSE <<>>

RECURSIVE Dictated(_)
Dictated(log) ==
    IF log = <<>> THEN <<>>
    ELSE (IF Complete(Head(log)) THEN DictatedBy(Head(log).code) ELSE <<>>)
         \o Dictated(Tail(log))

Names(cbs) == [i \in 1..Len(cbs) |-> cbs[i].cb]

Count(cbs, name) == Cardinality({i \in 1..Len(cbs) : cbs[i].cb = name})

\* the server lays its packets out as the client reads them, and no receive
\* on this connection has been abandoned inside a packet
WellFramed ==
    /\ srv_rev >= DBMS_MIN_REVISION_WITH_BLOCK_INFO
    /\ \A i \in 1..Len(received) : received[i].thrown # "runtime_error"

\* C1: during and after ExecuteQuery the sink has been told exactly what the
\* codes of the packets read so far dictate, in their order (Data -> OnData,
\* Progress -> OnProgress, ProfileInfo -> OnProfile, Exception ->
\* OnServerException, EndOfStream -> OnFinish, Pong -> nothing); a terminal
\* packet is the last packet the call reads, also when more packets follow it
\* on the stream; and the packets read are the server's, in the order it wrote
\* them.
C1_CallbacksFollowPacketCodes ==
    result.op = "ExecuteQuery" =>
        /\ Names(callbacks) = Dictated(CallReceived)
        /\ \A i \in 1..(Len(CallReceived) - 1) :
              ~(Complete(CallReceived[i]) /\ Terminal(CallReceived[i].code))
        /\ WellFramed =>
              /\ Len(received) <= Len(srv_log)
              /\ \A i \in 1..Len(received) : received[i].code = srv_log[i].code

C1_Witness ==
    /\ Ended("ExecuteQuery")
    /\ result.kind = "ok"
    /\ WellFramed
    /\ Len(callbacks) >= 2
    /\ Last(callbacks).cb = "OnFinish"
    /\ input # <<>>

\* C2: in ExecuteQuery's loop, after a packet that was read to its end the
\* loop goes on exactly if the packet is not EndOfStream or Exception: it goes
\* on after Data as after Progress, ProfileInfo and Pong.
C2_DataIsNotTerminal ==
    [][(pc = "query" /\ Len(received') > Len(received) /\ Complete(Last(received')))
        => (pc' = "query" <=> ~Terminal(Last(received').code))]_vars

C2_Witness ==
    /\ pc = "query"
    /\ CallReceived # <<>>
    /\ Last(CallReceived).code = ServerData
    /\ Complete(Last(CallReceived))
    /\ callbacks # <<>>
    /\ Last(callbacks).cb = "OnData"

\* C3: OnFinish is not called while ExecuteQuery is running; an ExecuteQuery
\* that ends on EndOfStream returns normally with OnFinish called exactly once,
\* as the last callback; one that ends on an Exception packet never calls it.
C3_OnFinishOnceAndLast ==
    /\ pc = "query" => Count(callbacks, "OnFinish") = 0
    /\ (Ended("ExecuteQuery") /\ CallReceived # <<>>) =>
          /\ Last(CallReceived).code = ServerEndOfStream =>
                /\ result.kind = "ok"
                /\ Count(callbacks, "OnFinish") = 1
                /\ Last(callbacks).cb = "OnFinish"
          /\ Last(CallReceived).code = ServerException =>
                Count(callbacks, "OnFinish") = 0

C3_Witness ==
    /\ Ended("ExecuteQuery")
    /\ CallReceived # <<>>
    /\ Last(CallReceived).code = ServerEndOfStream
    /\ Len(callbacks) >= 2
    /\ Count(callbacks, "OnFinish") = 1

\* the Data packets of the call that were decoded to their end
DecodedData ==
    {i \in 1..Len(CallReceived) :
        /\ CallReceived[i].code = ServerData
        /\ ~CallReceived[i].short
        /\ CallReceived[i].thrown = "none"}

\* C4 as stated: OnData is never called with a block that has no rows.
C4_NoOnDataWithoutRows ==
    result.op = "ExecuteQuery" =>
        \A i \in 1..Len(callbacks) : callbacks[i].cb = "OnData" => callbacks[i].arg[2] >= 1

\* C4 amended: during ExecuteQuery, OnData is called once for each Data
\* packet that was decoded to its end, whether its block has rows or not.
C4_OnDataForEveryDecodedBlock ==
    result.op = "ExecuteQuery" => Count(callbacks, "OnData") = Cardinality(DecodedData)

C4_Witness ==
    /\ result.op = "ExecuteQuery"
    /\ \E i \in 1..Len(callbacks) :
          callbacks[i].cb = "OnData" /\ callbacks[i].arg = <<0, 0>>
    /\ \E i \in 1..Len(callbacks) :
          callbacks[i].cb = "OnData" /\ callbacks[i].arg = <<1, 0>>

EndsWith(p, s) == Len(p) >= Len(s) /\ SubSeq(p, Len(p) - Len(s) + 1, Len(p)) = s

\* the codes of the packets the call has read are Progress*, Data, EndOfStream
InsertAnswered ==
    /\ Len(CallReceived) >= 2
    /\ \A i \in 1..Len(CallReceived) : Complete(CallReceived[i])
    /\ \A i \in 1..(Len(CallReceived) - 2) : CallReceived[i].code = ServerProgress
    /\ CallReceived[Len(CallReceived) - 1].code = ServerData
    /\ Last(CallReceived).code = ServerEndOfStream

\* the block as it is laid out at the end of a Data packet
BlockTail(b) == WriteUInt64(Len(b.cols)) \o WriteUInt64(b.rows) \o SaveColumns(b.cols)

\* C5: an Insert that was answered with Progress*, Data, EndOfStream has
\* returned normally and has written exactly four packets: the Query whose
\* text is "INSERT INTO <table> VALUES", an empty Data packet, a Data packet
\* with the caller's block (framed as the empty one is), an empty Data packet.
C5_InsertWritesFourPackets ==
    (result.op = "Insert" /\ InsertAnswered) =>
        /\ pc = "idle"
        /\ result.kind = "ok"
        /\ Len(CallWire) = 4
        /\ CallWire[1][1] = ClientQuery
        /\ \E table \in TableNames :
              EndsWith(CallWire[1], WriteString(StrInsertInto \o table \o StrValues))
        /\ CallWire[2][1] = ClientData
        /\ EndsWith(CallWire[2], BlockTail(EmptyBlock))
        /\ CallWire[3][1] = ClientData
        /\ EndsWith(CallWire[3], BlockTail(block))
        /\ Take(CallWire[3], Len(CallWire[3]) - Len(BlockTail(block)))
              = Take(CallWire[2], Len(CallWire[2]) - Len(BlockTail(EmptyBlock)))
        /\ CallWire[4] = CallWire[2]

C5_Witness ==
    /\ result.op = "Insert"
    /\ InsertAnswered
    /\ Len(CallReceived) = 3
    /\ Len(CallWire) = 4
    /\ block.rows = 1

\* C6 as stated (the code does not satisfy it): a Ping that has received a
\* whole packet and returned normally has received a Pong.
C6_PingReturnsOnlyOnPong ==
    (Ended("Ping") /\ result.kind = "ok" /\ CallReceived # <<>>
       /\ Complete(Head(CallReceived)))
        => Head(CallReceived).code = ServerPong

\* a Hello packet that carries info; the timezone is there from 54058 on
HelloOf(info) ==
    WriteUInt64(ServerHello) \o WriteString(info.name)
    \o WriteUInt64(info.version_major) \o WriteUInt64(info.version_minor)
    \o WriteUInt64(info.revision)
    \o (IF info.revision >= 54058 THEN WriteString(info.timezone) ELSE <<>>)

\* C7: a construction that has ended has either succeeded, having read
\* exactly one whole Hello packet (with the timezone iff the revision is at
\* least 54058), or has failed with a ServerException that carries the chain
\* of the Exception packet it read, whatever the rethrow option is, or has
\* failed with an error after reading something that is neither a whole
\* Hello nor a whole Exception packet; a failed construction leaves no
\* session.
C7_HandshakeOutcome ==
    Ended("Construct") =>
        \/ /\ result.kind = "ok"
           /\ pc = "idle"
           /\ server_info_.revision = srv_rev
           /\ server_info_.timezone = (IF srv_rev >= 54058 THEN StrUTC ELSE <<>>)
           /\ consumed = HelloOf(server_info_)
        \/ /\ result.kind = "ServerException"
           /\ pc = "none"
           /\ consumed = SrvException(result.chain)
        \/ /\ result.kind = "runtime_error"
           /\ pc = "none"
           /\ consumed # SrvHello(srv_rev)
           /\ \A n \in 1..2 : consumed # SrvException(Take(<<516, 1000>>, n))

C7_Witness ==
    /\ Ended("Construct")
    /\ result.kind = "ok"
    /\ server_info_.revision = DBMS_MIN_REVISION_WITH_SERVER_TIMEZONE
    /\ server_info_.timezone = StrUTC

\* the call has ended on a whole Exception packet
EndedOnException ==
    /\ Ended("ExecuteQuery")
    /\ CallReceived # <<>>
    /\ Last(CallReceived).code = ServerException
    /\ ~Last(CallReceived).short

\* C8: an ExecuteQuery that has read a whole Exception packet has ended,
\* with OnServerException called exactly once, last, with the chain of that
\* packet; it has thrown ServerException (with that chain) iff the rethrow
\* option is set; and the session is idle: a further Ping, ExecuteQuery or
\* Insert is possible and writes its request.
C8_ExceptionEndsQueryNotSession ==
    EndedOnException =>
        /\ Count(callbacks, "OnServerException") = 1
        /\ Last(callbacks).cb = "OnServerException"
        /\ WellFramed => consumed = SrvException(Last(callbacks).arg)
        /\ result.kind = (IF options_.rethrow_exceptions THEN "ServerException" ELSE "ok")
        /\ options_.rethrow_exceptions => result.chain = Last(callbacks).arg
        /\ pc = "idle"
        /\ calls < MaxCalls =>
              /\ ENABLED (Ping /\ Len(wire') = Len(wire) + 1)
              /\ ENABLED (\E text \in QueryTexts :
                            ExecuteQuery(text) /\ Len(wire') = Len(wire) + 2)
              /\ ENABLED (\E t \in TableNames, b \in CallerBlocks, g \in UninitValues :
                            Insert(t, b, g) /\ Len(wire') = Len(wire) + 2)

C8_Witness ==
    /\ pc = "ping"
    /\ options_.rethrow_exceptions
    /\ rmark >= 1
    /\ received[rmark].code = ServerException
    /\ ~received[rmark].short
    /\ callbacks # <<>>
    /\ Last(callbacks).cb = "OnServerException"
    /\ Last(callbacks).arg = <<516, 1000>>
    /\ Len(wire) > mark

\* the number a decimal string stands for
RECURSIVE DecimalValue(_)
DecimalValue(s) ==
    IF s = <<>> THEN 0 ELSE DecimalValue(Take(s, Len(s) - 1)) * 10 + (Last(s) - 48)

\* the query id a Query packet carries
QueryIdOf(p) == DecimalValue(ReadString(Tail(p)).v)

QueryPackets == {i \in 1..Len(wire) : wire[i][1] = ClientQuery}

\* C9 as stated (the code does not satisfy it): of two Query packets the
\* later one carries the greater query id.
C9_QueryIdsIncrease ==
    \A i \in QueryPackets : \A j \in QueryPackets :
        i < j => QueryIdOf(wire[j]) > QueryIdOf(wire[i])

\* the fields of a Query packet for a server of revision rev: how each is
\* read, and its value (the text, which comes last, left out)
QueryKinds(rev) ==
    <<"v", "s">>
    \o (IF rev >= 54032
        THEN <<"f1", "s", "s", "s", "f1", "s", "s", "s", "v", "v", "v">>
             \o (IF rev >= 54060 THEN <<"s">> ELSE <<>>)
        ELSE <<>>)
    \o <<"s", "v", "v", "s">>

QueryValues(rev) ==
    <<<<1>>, StdToString(query_id_)>>
    \o (IF rev >= 54032
        THEN <<<<1>>, <<>>, <<>>, StrInitialAddress, <<1>>, <<>>, <<>>,
               StrClickHouseClient, <<1>>, <<1>>, <<54126>>>>
             \o (IF rev >= 54060 THEN <<<<>>>> ELSE <<>>)
        ELSE <<>>)
    \o <<<<>>, <<2>>, <<0>>>>

\* the packet, read as f, is such a Query packet and nothing else
QueryLayout(f, rev) ==
    /\ f.ok
    /\ f.rest = <<>>
    /\ Take(f.vals, Len(f.vals) - 1) = QueryValues(rev)
    /\ \/ Last(f.vals) \in QueryTexts
       \/ \E table \in TableNames : Last(f.vals) = StrInsertInto \o table \o StrValues

\* C10: every Query packet written consists of the code, the query id, the
\* ClientInfo fields iff the revision the handshake stored is at least 54032,
\* the quota key iff it is at least 54060, the empty settings terminator,
\* stage 2, compression 0 and the text, and an empty Data packet comes next.
C10_QueryPacketLayout ==
    \A i \in QueryPackets :
        /\ QueryLayout(ReadFields(wire[i], QueryKinds(server_info_.revision)),
                       server_info_.revision)
        /\ i < Len(wire)
        /\ wire[i + 1][1] = ClientData
        /\ EndsWith(wire[i + 1], BlockTail(EmptyBlock))

C10_Witness ==
    /\ QueryPackets # {}
    /\ server_info_.revision = DBMS_MIN_REVISION_WITH_CLIENT_INFO
    /\ pc = "idle"

\* the last receive read a whole packet of this code
JustRead(code) ==
    /\ received # <<>>
    /\ consumed # <<>>
    /\ Last(received).code = code
    /\ Complete(Last(received))

\* C11 as stated (the code does not satisfy it): from a server that lays its
\* packets out by its own revision, a receive takes the bytes of exactly one
\* packet: a Progress packet with total_rows iff the server's revision is at
\* least 51554, a Data packet with the table name iff it is at least 50264
\* and with BlockInfo iff it is at least 51903.
C11_ReceiveGatesFollowServer ==
    /\ JustRead(ServerProgress) => consumed = SrvProgress(srv_rev)
    /\ JustRead(ServerData) =>
          \E b \in {EmptyBlock, RowBlock, StringBlock} : consumed = SrvData(b, srv_rev)

\* the empty Data packets the client has written
EmptyDataPackets ==
    {i \in 1..Len(wire) : wire[i][1] = ClientData /\ EndsWith(wire[i], BlockTail(EmptyBlock))
                          /\ ~EndsWith(wire[i], BlockTail(RowBlock))}

\* ReceiveData, ended as r, has read a block of no columns and no rows and
\* has left exactly next unread
ReadEmptyBlock(r, next) ==
    /\ ~r.short
    /\ r.thrown = "none"
    /\ r.cbs = <<Callback("OnData", <<0, 0>>)>>
    /\ r.rest = next

\* C12 as stated (the code does not satisfy it): what SendData has written
\* after the code for Block(), for a server of any revision, is read by
\* ReceiveData to its last byte and no further, as a block of no columns and
\* no rows.
C12_EmptyBlockRoundTrip ==
    \A i \in EmptyDataPackets :
        ReadEmptyBlock(ReceiveData(Tail(wire[i]) \o <<ServerEndOfStream>>, TRUE),
                       <<ServerEndOfStream>>)

\* an earlier call of this session has ended with a protocol error
ErrorBefore == \E i \in 1..rmark : received[i].thrown = "runtime_error"

\* C13 as stated (the code does not satisfy it): once a call has failed with
\* a protocol error, no later call of the session writes to the socket.
C13_NoWriteAfterError == ErrorBefore => Len(wire) = mark

\* C14 as stated (the code does not satisfy it): an ExecuteQuery whose last
\* packet was cut off by the end of the stream does not return normally.
C14_EofInsidePacketFails ==
    (Ended("ExecuteQuery") /\ CallReceived # <<>> /\ Last(CallReceived).short)
        => result.kind # "ok"

\* a Data packet with a column of a type the factory does not know, up to
\* and including the type name
UnknownTypeRead == Take(SrvData(UnknownBlock, REVISION), Len(SrvData(UnknownBlock, REVISION)) - 1)

\* C15: when the last receive of an ExecuteQuery has read a Data packet up
\* to the name of a column type that the factory does not know, the call has
\* ended with a runtime_error thrown to the caller: the sink was told of the
\* packets before it only (no OnData for this one, no OnFinish), nothing
\* more was read, and the sink is no longer installed.
C15_UnknownTypeAborts ==
    (result.op = "ExecuteQuery" /\ CallReceived # <<>> /\ consumed = UnknownTypeRead) =>
        /\ pc = "idle"
        /\ result.kind = "runtime_error"
        /\ Last(CallReceived).code = ServerData
        /\ Last(CallReceived).thrown = "runtime_error"
        /\ Names(callbacks) = Dictated(SubSeq(CallReceived, 1, Len(CallReceived) - 1))
        /\ Count(callbacks, "OnFinish") = 0
        /\ ~events_

C15_Witness ==
    /\ result.op = "ExecuteQuery"
    /\ Len(CallReceived) >= 2
    /\ consumed = UnknownTypeRead
    /\ Len(callbacks) >= 1
    /\ Last(callbacks).cb = "OnData"
    /\ input # <<>>

\* C16: events_ is set exactly while ExecuteQuery is running, whichever way
\* the call is left (return, ServerException, runtime_error, an exception
\* thrown by the sink), and no step of Insert or Ping calls the sink.
C16_SinkOnlyDuringExecuteQuery ==
    [][/\ events_ <=> pc = "query"
       /\ events_' <=> pc' = "query"
       /\ pc \in {"insert_wait", "insert_eos", "ping"} => callbacks' = callbacks]_vars

C16_Witness ==
    /\ result.op \in {"Insert", "Ping"}
    /\ rmark >= 1
    /\ received[rmark].thrown = "sink"
    /\ CallReceived # <<>>
    /\ Last(CallReceived).code \in {ServerData, ServerProgress}
    /\ Complete(Last(CallReceived))
    /\ ~events_

\* C17: whenever the client waits in ReceiveHello or ReceivePacket, the
\* write buffer is empty and what the call has written is on the socket.
C17_FlushedBeforeReceive ==
    pc \in Receiving \cup {"hello"} => (output_ = <<>> /\ Len(wire) > mark)

C17_Witness ==
    /\ pc = "insert_eos"
    /\ output_ = <<>>
    /\ Len(wire) = mark + 4
    /\ input = <<>>

\* C18 as stated (the code does not satisfy it): Insert has written the
\* caller's block (its third packet) only if it has read the code of a Data
\* packet from the server, and it is still waiting as long as it has read
\* Progress packets only.
C18_BlockOnlyAfterServerData ==
    result.op = "Insert" =>
        /\ Len(CallWire) >= 3 =>
              \E i \in 1..Len(CallReceived) : CallReceived[i].code = ServerData
        /\ (result.kind = "pending"
            /\ \A i \in 1..Len(CallReceived) : CallReceived[i].code = ServerProgress)
              => pc = "insert_wait"

\* C19 as stated (the code does not satisfy it): no exception chain of more
\* than ChainCap frames is accepted, neither thrown to the caller nor handed
\* to the sink.
C19_ChainIsCapped ==
    /\ Len(result.chain) <= ChainCap
    /\ \A i \in 1..Len(callbacks) :
          callbacks[i].cb = "OnServerException" => Len(callbacks[i].arg) <= ChainCap

\* C20 as stated (the code does not satisfy it): when Insert waits for the
\* server's Data packet and the server's transcript is exhausted (the stream
\* is closed and all of it has been read), the turn of the loop that follows
\* leaves the loop, by return or by throw; otherwise every further turn
\* finds the same state and Insert never ends.
C20_InsertWaitEnds ==
    (pc = "insert_wait" /\ closed /\ input = <<>>)
        => ENABLED (InsertAwait /\ pc' # "insert_wait")

=============================================================================
